---- MODULE Spec2Model ----
(***************************************************************************)
(* Model of the session replay Player (React component Player with its     *)
(* EventStream feed and the usefulEvent classifier), of the backend's      *)
(* /health handler, origin checks and choice of what to run, of the        *)
(* Sessions query as its test exercises it, and of the Timeline Store.     *)
(*                                                                         *)
(* React runs one event handler or timer callback at a time; the state     *)
(* updates a handler makes are committed together and the effects whose    *)
(* dependencies changed run before the next update is processed.  Each     *)
(* action below is therefore one handler or callback together with the     *)
(* re-render and the effects it triggers.                                  *)
(***************************************************************************)
EXTENDS Integers, Sequences, FiniteSets, TLC

(* ------------------------------ bounds -------------------------------- *)
\* number of user clicks / slider selections explored on one view
MaxInputs == 3
\* the same, on a view of the catalog with the long session
MaxInputsLong == 2
\* number of times the GetEvents query delivers a new value of sessionData
\* on a view of the short catalog
MaxFetches == 1
\* the same, on a view of another catalog
MaxFetchesLong == 2
\* number of /health requests explored
MaxRequests == 4
\* number of attributes of a node handed to the feed's description
MaxAttrs == 3
\* number of sessions in the table when the Sessions query runs
MaxSessions == 3
\* number of events of the session written to the Timeline Store
MaxEnvelopes == 4
\* number of batches the queue delivers a second time
MaxRedeliveries == 1

\* largest totalCount of error groups the server reports
MaxErrorGroups == 35

\* load-more calls of the error feed stop once count reaches this
MaxCount == 40

(* ------------------------- program constants -------------------------- *)
\* period of the playback ticker and the amount it adds to `time`
TickInterval == 50
\* the undo button rewinds by 7 seconds
RewindMillis == 7000
\* useState(2): the speed shown before any click
InitialSpeed == 2
\* the speed at which the control wraps around to 1
TopSpeed == 4

\* error groups added to count by one load-more, and asked for beyond count
PageSize == 10

(* ------------------------------- events ------------------------------- *)
EventTypes ==
    {"DomContentLoaded", "Load", "FullSnapshot", "IncrementalSnapshot",
     "Meta", "Custom"}
IncrementalSources ==
    {"Mutation", "MouseMove", "MouseInteraction", "Scroll",
     "ViewportResize", "Input", "None"}
MouseInteractionKinds ==
    {"MouseUp", "MouseDown", "Click", "ContextMenu", "DblClick", "Focus",
     "Blur", "TouchStart", "None"}

Ev(ty, src, kind, ts) ==
    [type |-> ty, source |-> src, kind |-> kind, timestamp |-> ts]

\* const usefulEvent = (e: eventWithTime): boolean
usefulEventNoFocus(e) ==
    IF e.type # "IncrementalSnapshot" THEN FALSE
    ELSE IF e.source = "MouseInteraction"
         THEN e.kind = "Click"
         ELSE FALSE

usefulEvent(e) ==
    IF e.type # "IncrementalSnapshot" THEN FALSE
    ELSE IF e.source = "MouseInteraction"
         THEN IF e.kind = "Click" THEN TRUE
              ELSE IF e.kind = "Focus" THEN TRUE
              ELSE FALSE
         ELSE FALSE

\* the sessions the GetEvents query may return
SessionSpecExample ==
    << Ev("Meta", "None", "None", 0),
       Ev("FullSnapshot", "None", "None", 0),
       Ev("IncrementalSnapshot", "MouseInteraction", "Click", 1000),
       Ev("IncrementalSnapshot", "Scroll", "None", 5000),
       Ev("IncrementalSnapshot", "MouseInteraction", "Focus", 9000),
       Ev("IncrementalSnapshot", "Mutation", "None", 10000) >>
SessionS1 ==
    << Ev("FullSnapshot", "None", "None", 0),
       Ev("IncrementalSnapshot", "MouseInteraction", "Click", 500),
       Ev("IncrementalSnapshot", "Scroll", "None", 600) >>
SessionShort ==
    << Ev("FullSnapshot", "None", "None", 0),
       Ev("IncrementalSnapshot", "MouseInteraction", "Click", 70),
       Ev("IncrementalSnapshot", "MouseInteraction", "Focus", 70),
       Ev("IncrementalSnapshot", "MouseInteraction", "Blur", 120) >>
\* SessionS1 after the recorder has added one more event to it
SessionS1Live ==
    SessionS1 \o << Ev("IncrementalSnapshot", "Mutation", "None", 900) >>
ShortCatalog == {SessionS1, SessionShort}
LongCatalog == {SessionSpecExample, SessionS1}
LiveCatalog == {SessionS1, SessionS1Live}

\* r.getMetaData().totalTime: last timestamp minus first timestamp
TotalTimeOf(evs) == evs[Len(evs)].timestamp - evs[1].timestamp


(* -------------------------------- state ------------------------------- *)
VARIABLES
    catalog,        \* the sessions the backend holds for this view
    mounted,        \* the Player component is on screen
    sessionData,    \* sessionData?.events of the GetEvents query, << >>
                    \* while it is undefined or empty
    replayer,       \* useState<Replayer | undefined>: NoReplayer or a record
    paused,         \* useState(true)
    time,           \* useState(0)
    skipInactive,   \* useState(false)
    speed,          \* useState(2)
    ticker,         \* useState(0): id of the ticker interval, 0 for none
    events,         \* useState([])
    totalTime,      \* useState(0)
    playerLoading,  \* useState(true)
    tickers,        \* live intervals created by the ticker effect, each
                    \* with the totalTime its callback closed over
    resizers,       \* live intervals created by the resize effect
    nextId,         \* next id window.setInterval hands out
    lastAct,        \* the handler or callback that ran last
    inputs,         \* user clicks and selections so far
    fetches,        \* values of sessionData delivered so far
    currEvent,      \* EventStream: useState(-1), timestamp of the current item
    scrollTarget,   \* EventStream: name of the Element last scrolled to, -1
                    \* before any scroll
    probe,          \* function run: the argument handed to the function
    verdict,        \* function run: {} or {what the function returned}
    hRuntime,       \* backend: the runtime flag the process was started with
    hQueue,         \* backend: HealthCheck messages on the unbatched topic
    hBatched,       \* backend: HealthCheck messages on the batched topic
    hStatus,        \* backend: status of the last /health response, 0 = none
    hBody,          \* backend: body of the last /health response
    hSubmits,       \* backend: results of the Submit calls of that request
    hRequests,      \* backend: /health requests served
    hHandlerFlag,   \* backend: the worker-handler flag, "" when not given
    hEnv,           \* backend: the environment the process runs in
    hFrontendURL,   \* backend: FRONTEND_URI, << >> when not set
    hLandingStagingURL, \* backend: LANDING_PAGE_STAGING_URI
    hRunning,       \* backend: what main has started
    tsBatches,      \* Timeline Store: the batches writers submit for the session
    tsPending,      \* Timeline Store: batches not yet acknowledged
    tsStore,        \* Timeline Store: the session's sequence as stored
    tsRedelivered,  \* Timeline Store: batches delivered a second time
    searchParams,   \* ErrorFeedV2: searchParams of the search context
    searchQuery,    \* ErrorFeedV2: searchQuery of the search context, "" when
                    \* there is none
    count,          \* ErrorFeedV2: useState(10)
    data,           \* ErrorFeedV2: useState({error_groups: [], totalCount: 0}),
                    \* error_groups being the number of groups held
    loading,        \* ErrorFeedV2: loading of the error groups query
    showLoadingSkeleton \* ErrorFeedV2: useState(true)

playerVars ==
    << catalog, mounted, sessionData, replayer, paused, time, skipInactive, speed,
       ticker, events, totalTime, playerLoading, tickers, resizers, nextId,
       lastAct, inputs, fetches, currEvent, scrollTarget >>
probeVars == << probe, verdict >>
healthVars ==
    << hRuntime, hQueue, hBatched, hStatus, hBody, hSubmits, hRequests >>
serverVars ==
    << hHandlerFlag, hEnv, hFrontendURL, hLandingStagingURL, hRunning >>
storeVars == << tsBatches, tsPending, tsStore, tsRedelivered >>
feedVars ==
    << searchParams, searchQuery, count, data, loading, showLoadingSkeleton >>
vars == << playerVars, probeVars, healthVars, serverVars, storeVars, feedVars >>

NoReplayer == [present |-> FALSE]

\* new Replayer(newEvents, {root}): stopped at offset 0 with the library's
\* default configuration (speed 1, skipInactive false).  cast counts the
\* events of the list the replayer has applied to the page; id tells one
\* Replayer object from another (the delivery of sessionData that built it).
NewReplayer(evs) ==
    [present |-> TRUE, playing |-> FALSE, offset |-> 0, speed |-> 1,
     skipInactive |-> FALSE, events |-> evs, cast |-> 0, id |-> fetches + 1]

\* replayer.play(t) and replayer.pause(t) apply at once, without emitting
\* 'event-cast', the events that lie before offset t, and play(t) schedules
\* the others
AppliedBefore(evs, t) ==
    Cardinality({i \in 1..Len(evs) :
                    evs[i].timestamp - evs[1].timestamp < t})

\* sessionData?.events.map((e, i) => ({ ...e, identifier: i.toString() }))
WithIdentifiers(evs) ==
    [i \in 1..Len(evs) |->
        [type |-> evs[i].type, source |-> evs[i].source,
         kind |-> evs[i].kind, timestamp |-> evs[i].timestamp,
         identifier |-> i - 1]]

\* the Player right after it is mounted
PlayerMounted ==
    /\ mounted = TRUE
    /\ sessionData = << >>
    /\ replayer = NoReplayer
    /\ paused = TRUE
    /\ time = 0
    /\ skipInactive = FALSE
    /\ speed = InitialSpeed
    /\ ticker = 0
    /\ events = << >>
    /\ totalTime = 0
    /\ playerLoading = TRUE
    /\ tickers = {}
    /\ resizers = {}
    /\ nextId = 1
    /\ lastAct = "Init"
    /\ inputs = 0
    /\ fetches = 0
    /\ currEvent = -1
    /\ scrollTarget = -1

PlayerInit == catalog = ShortCatalog /\ PlayerMounted

PlayerInitLong == catalog = LongCatalog /\ PlayerMounted

PlayerInitLive == catalog = LiveCatalog /\ PlayerMounted

ProbeIdle == probe = Ev("Meta", "None", "None", 0) /\ verdict = {}

HealthQuiet ==
    /\ hQueue = 0
    /\ hBatched = 0
    /\ hStatus = 0
    /\ hBody = [kind |-> "none", detail |-> "none"]
    /\ hSubmits = << >>
    /\ hRequests = 0

HealthIdle ==
    /\ hRuntime = "all"
    /\ HealthQuiet

\* a process started with the default flags, no environment, main not yet
\* at the point where it decides what to run
ServerIdle ==
    /\ hHandlerFlag = ""
    /\ hEnv = "prod"
    /\ hFrontendURL = << >>
    /\ hLandingStagingURL = << >>
    /\ hRunning = {}

StoreIdle ==
    /\ tsBatches = {}
    /\ tsPending = {}
    /\ tsStore = << >>
    /\ tsRedelivered = 0

BackendIdle == HealthIdle /\ ServerIdle /\ StoreIdle

\* the error feed right after it is mounted without a search query
FeedIdle ==
    /\ searchParams = "p1"
    /\ searchQuery = ""
    /\ count = 10
    /\ data = [error_groups |-> 0, totalCount |-> 0]
    /\ loading = FALSE
    /\ showLoadingSkeleton = TRUE

Init == PlayerInit /\ ProbeIdle /\ BackendIdle /\ FeedIdle

InitLong == PlayerInitLong /\ ProbeIdle /\ BackendIdle /\ FeedIdle

InitLive == PlayerInitLive /\ ProbeIdle /\ BackendIdle /\ FeedIdle

\* what no handler of the Player touches
frame == << catalog, probeVars, healthVars, serverVars, storeVars, feedVars >>

(* --------------------------- ticker effect ---------------------------- *)
TickerEffectKeepsInterval(p, tot) ==
    IF p
    THEN /\ tickers' = tickers
         /\ ticker' = 0
         /\ nextId' = nextId
    ELSE IF ticker = 0
         THEN /\ tickers' = tickers \cup {[id |-> nextId, totalTime |-> tot]}
              /\ ticker' = nextId
              /\ nextId' = nextId + 1
         ELSE UNCHANGED << tickers, ticker, nextId >>

\* useEffect(..., [setTicker, paused, ticker, totalTime]) run to quiescence
\* after a commit with the given paused flag and totalTime.
TickerEffect(p, tot) ==
    IF p
    THEN /\ tickers' = {i \in tickers : i.id # ticker}
         /\ ticker' = 0
         /\ nextId' = nextId
    ELSE IF ticker = 0
         THEN /\ tickers' = tickers \cup {[id |-> nextId, totalTime |-> tot]}
              /\ ticker' = nextId
              /\ nextId' = nextId + 1
         ELSE UNCHANGED << tickers, ticker, nextId >>

UserCan ==
    /\ mounted
    /\ inputs < (IF catalog = LongCatalog THEN MaxInputsLong ELSE MaxInputs)

(* ---------------------------- user actions ---------------------------- *)
\* onClick of styles.playSection
PlayPause ==
    /\ UserCan
    /\ IF paused
       THEN /\ replayer' = IF replayer.present
                           THEN [replayer EXCEPT
                                    !.playing = TRUE,
                                    !.offset = time,
                                    !.cast = AppliedBefore(replayer.events, time)]
                           ELSE replayer
            /\ paused' = FALSE
       ELSE /\ replayer' = IF replayer.present
                           THEN [replayer EXCEPT !.playing = FALSE]
                           ELSE replayer
            /\ paused' = TRUE
    /\ TickerEffect(paused', totalTime)
    /\ lastAct' = "PlayPause"
    /\ UNCHANGED frame
    /\ inputs' = inputs + 1
    /\ UNCHANGED << mounted, sessionData, time, skipInactive, speed, events,
                    totalTime, playerLoading, resizers, fetches,
                    currEvent, scrollTarget >>

RewindTimeUnclamped(t) == t - RewindMillis

\* const newTime = time - 7000 < 0 ? 0 : time - 7000
RewindTime(t) == IF t - RewindMillis < 0 THEN 0 ELSE t - RewindMillis

\* onClick of styles.undoSection
Rewind ==
    /\ UserCan
    /\ LET newTime == RewindTime(time) IN
       /\ replayer' = IF replayer.present
                      THEN [replayer EXCEPT
                               !.playing = ~paused,
                               !.offset = newTime,
                               !.cast = AppliedBefore(replayer.events, newTime)]
                      ELSE replayer
       /\ time' = newTime
    /\ lastAct' = "Rewind"
    /\ UNCHANGED frame
    /\ inputs' = inputs + 1
    /\ UNCHANGED << mounted, sessionData, paused, skipInactive, speed, ticker,
                    events, totalTime, playerLoading, tickers, resizers,
                    nextId, fetches,
                    currEvent, scrollTarget >>

\* const newSpeed = speed < 4 ? speed * 2 : 1
NewSpeed(s) == IF s < TopSpeed THEN s * 2 ELSE 1

\* onClick of styles.speedWrapper
SpeedClick ==
    /\ UserCan
    /\ speed' = NewSpeed(speed)
    /\ replayer' = IF replayer.present
                   THEN [replayer EXCEPT !.speed = NewSpeed(speed)]
                   ELSE replayer
    /\ lastAct' = "Speed"
    /\ UNCHANGED frame
    /\ inputs' = inputs + 1
    /\ UNCHANGED << mounted, sessionData, paused, time, skipInactive, ticker,
                    events, totalTime, playerLoading, tickers, resizers,
                    nextId, fetches,
                    currEvent, scrollTarget >>

\* onClick of styles.skipInactivity
SkipInactivityClick ==
    /\ UserCan
    /\ replayer' = IF replayer.present
                   THEN [replayer EXCEPT !.skipInactive = TRUE]
                   ELSE replayer
    /\ skipInactive' = ~skipInactive
    /\ lastAct' = "SkipInactivity"
    /\ UNCHANGED frame
    /\ inputs' = inputs + 1
    /\ UNCHANGED << mounted, sessionData, paused, time, speed, ticker, events,
                    totalTime, playerLoading, tickers, resizers, nextId,
                    fetches,
                    currEvent, scrollTarget >>


\* the values the Slider component hands to onSelect when rendered with
\* max = totalTime: positions on the track, from 0 to max
SliderStops == {0, 500, 1000, 10000}
SliderValues(max) == {t \in SliderStops : 0 <= t /\ t <= max}

\* <Slider max={totalTime} onSelect={(newTime) => { setTime(newTime); }} />
SliderSelect(newTime) ==
    /\ UserCan
    /\ newTime \in SliderValues(totalTime)
    /\ time' = newTime
    /\ lastAct' = "SliderSelect"
    /\ UNCHANGED frame
    /\ inputs' = inputs + 1
    /\ UNCHANGED << mounted, sessionData, replayer, paused, skipInactive,
                    speed, ticker, events, totalTime, playerLoading, tickers,
                    resizers, nextId, fetches,
                    currEvent, scrollTarget >>

(* -------------------------- timer callbacks --------------------------- *)
\* the updater handed to setTime by the ticker callback; tot is the
\* totalTime of the render in which the interval was created
TickTimeBySpeed(t, tot) == IF t < tot THEN t + TickInterval * speed ELSE t

TickTime(t, tot) == IF t < tot THEN t + TickInterval ELSE t

TickPaused(t, tot, p) == IF t < tot THEN p ELSE TRUE

\* callback of window.setInterval(..., 50) created by the ticker effect
Tick(i) ==
    /\ i \in tickers
    /\ IF mounted
       THEN /\ time' = TickTime(time, i.totalTime)
            /\ paused' = TickPaused(time, i.totalTime, paused)
            /\ TickerEffect(paused', totalTime)
       ELSE \* setState on an unmounted component is dropped
            UNCHANGED << time, paused, tickers, ticker, nextId >>
    /\ lastAct' = "Tick"
    /\ UNCHANGED frame
    /\ UNCHANGED << mounted, sessionData, replayer, skipInactive, speed,
                    events, totalTime, playerLoading, resizers, inputs,
                    fetches,
                    currEvent, scrollTarget >>

\* callback of window.setInterval(..., 200) created by the resize effect;
\* sized says whether resizePlayer found both bounding boxes
ResizeTick(i, sized) ==
    /\ i \in resizers
    /\ IF mounted /\ sized
       THEN /\ playerLoading' = FALSE
            /\ resizers' = resizers \ {i}
       ELSE \* playerWrapperRef.current is null once the view is closed
            UNCHANGED << playerLoading, resizers >>
    /\ lastAct' = "ResizeTick"
    /\ UNCHANGED frame
    /\ UNCHANGED << mounted, sessionData, replayer, paused, time,
                    skipInactive, speed, ticker, events, totalTime, tickers,
                    nextId, inputs, fetches,
                    currEvent, scrollTarget >>

(* ---------------------------- EventStream ----------------------------- *)
RECURSIVE FilterUseful(_)
FilterUsefulKeepAll(evs) == evs

\* events.filter(usefulEvent): the elements that pass, in array order
FilterUseful(evs) ==
    IF evs = << >> THEN << >>
    ELSE IF usefulEvent(Head(evs))
         THEN << Head(evs) >> \o FilterUseful(Tail(evs))
         ELSE FilterUseful(Tail(evs))

\* switch (mouseInteraction.type): the label of a feed item
EventStr(e) ==
    IF e.kind = "Click" THEN "Click"
    ELSE IF e.kind = "Focus" THEN "Focus"
    ELSE ""

\* one <Element name={e.identifier}> per filtered event, showing the label
\* and e.timestamp - replayer.getMetaData().startTime
FeedItems(evs, startTime) ==
    LET useful == FilterUseful(evs) IN
    [i \in 1..Len(useful) |->
        [identifier |-> useful[i].identifier,
         eventStr |-> EventStr(useful[i]),
         timeSinceStart |-> useful[i].timestamp - startTime]]

\* what EventStream renders: the skeleton while events is empty, otherwise
\* replayer && events.filter(usefulEvent).map(...)
FeedShown == Len(events) # 0 /\ replayer.present
Feed ==
    IF FeedShown
    THEN FeedItems(events, replayer.events[1].timestamp)
    ELSE << >>

\* the identifiers of the feed items drawn as the current event: those
\* with currEvent === e.timestamp
Highlighted ==
    IF FeedShown
    THEN LET useful == FilterUseful(events) IN
         {useful[i].identifier :
             i \in {j \in 1..Len(useful) : useful[j].timestamp = currEvent}}
    ELSE {}

(* ------------------------------ the query ----------------------------- *)
\* sessionData?.events?.length ?? 0 > 1 parses as length ?? (0 > 1)
HasEvents(s) == Len(s) # 0

\* useQuery delivers a new value of sessionData (the query completes, or
\* session_id changes while the view stays mounted and the data goes back
\* to undefined and then to the other session); the effects on
\* [sessionData], [replayer] and the ticker effect run.  Nothing but
\* events, totalTime and replayer is set: paused, time and ticker are kept,
\* and a live ticker interval keeps the totalTime it closed over.
SessionDataChange(s) ==
    /\ mounted
    /\ fetches < (IF catalog = ShortCatalog THEN MaxFetches
                   ELSE MaxFetchesLong)
    /\ s \in catalog \cup {<< >>}
    /\ s # sessionData
    /\ sessionData' = s
    /\ fetches' = fetches + 1
    /\ IF HasEvents(s)
       THEN /\ events' = WithIdentifiers(s)
            /\ totalTime' = TotalTimeOf(s)
            /\ replayer' = NewReplayer(WithIdentifiers(s))
            /\ resizers' = resizers \cup {nextId}
            /\ nextId' = nextId + 1
       ELSE UNCHANGED << events, totalTime, replayer, resizers, nextId >>
    /\ lastAct' = "SessionData"
    /\ UNCHANGED frame
    /\ UNCHANGED << mounted, paused, time, skipInactive, speed, ticker,
                    playerLoading, tickers, inputs,
                    currEvent, scrollTarget >>

\* the view is closed; no effect of Player returns a cleanup function
Unmount ==
    /\ mounted
    /\ mounted' = FALSE
    /\ lastAct' = "Unmount"
    /\ UNCHANGED frame
    /\ UNCHANGED << sessionData, replayer, paused, time, skipInactive, speed,
                    ticker, events, totalTime, playerLoading, tickers,
                    resizers, nextId, inputs, fetches,
                    currEvent, scrollTarget >>

\* the useful events the replayer has yet to apply
PendingUseful(r) ==
    {i \in (r.cast + 1)..Len(r.events) : usefulEvent(r.events[i])}

\* the replayer, while playing, applies the events of its list in order and
\* emits 'event-cast' for each; the handlers EventStream registered with
\* replayer.on('event-cast', ...) run (they are registered again at every
\* change of time and never removed, and all do the same).  They return at
\* once for an event that is not useful, so one step runs the replayer up
\* to its next useful event.  The replayer is followed while the view is
\* open; afterwards the state updates of its handlers are dropped.
EventCast ==
    /\ mounted
    /\ replayer.present
    /\ replayer.playing
    /\ PendingUseful(replayer) # {}
    /\ LET next == CHOOSE i \in PendingUseful(replayer) :
                       \A k \in PendingUseful(replayer) : i <= k
           event == replayer.events[next]
       IN  /\ replayer' = [replayer EXCEPT !.cast = next]
           /\ currEvent' = event.timestamp
           /\ scrollTarget' = event.identifier
    /\ lastAct' = "EventCast"
    /\ UNCHANGED frame
    /\ UNCHANGED << mounted, sessionData, paused, time, skipInactive, speed,
                    ticker, events, totalTime, playerLoading, tickers,
                    resizers, nextId, inputs, fetches >>

TickStep == \E i \in tickers : Tick(i)

ResizeStep == \E i \in resizers, sized \in BOOLEAN : ResizeTick(i, sized)

Next ==
    \/ PlayPause
    \/ Rewind
    \/ SpeedClick
    \/ SkipInactivityClick
    \/ \E t \in SliderStops : SliderSelect(t)
    \/ TickStep
    \/ ResizeStep
    \/ EventCast
    \/ \E s \in ShortCatalog \cup LongCatalog \cup LiveCatalog \cup {<< >>} :
            SessionDataChange(s)
    \/ Unmount

\* a view on short sessions
Spec == Init /\ [][Next]_vars

\* a view on a catalog with a session longer than the rewind
SpecLong == InitLong /\ [][Next]_vars

\* a view on a session that is still being recorded
SpecLive == InitLive /\ [][Next]_vars

(* ------------------------ the classifier alone ------------------------ *)
\* events as the recorder emits them: only incremental snapshots carry a
\* source, only mouse interactions carry an interaction kind
ProbeTimestamps == {0, 500, 600, 1000, 9000}
WellFormedEvents ==
    {e \in [type : EventTypes, source : IncrementalSources,
            kind : MouseInteractionKinds, timestamp : ProbeTimestamps] :
        /\ (e.type = "IncrementalSnapshot") <=> (e.source # "None")
        /\ (e.source = "MouseInteraction") <=> (e.kind # "None")}

InitClassify ==
    /\ PlayerInit
    /\ BackendIdle
    /\ FeedIdle
    /\ probe \in WellFormedEvents
    /\ verdict = {}

\* one call usefulEvent(probe)
Classify ==
    /\ verdict = {}
    /\ verdict' = {usefulEvent(probe)}
    /\ UNCHANGED << probe, playerVars, healthVars, serverVars, storeVars, feedVars >>

NextClassify == Classify

SpecClassify == InitClassify /\ [][NextClassify]_vars

(* ------------------- the description of a feed item ------------------- *)
\* A string is modelled as the sequence of its pieces, '' being << >>, and
\* an attributes object as the sequence of its key/value pairs in the order
\* Object.keys enumerates them.
AttrKeys == {"class", "id", "href", "type"}
AttrValues == {<< >>, << "v" >>}
TagNames == {<< "div" >>, << "a" >>}
Attributes ==
    {a \in UNION {[1..n -> [key : AttrKeys, value : AttrValues]] :
                      n \in 0..MaxAttrs} :
        \A i, j \in 1..Len(a) : a[i].key = a[j].key => i = j}
Nodes == [tagName : TagNames, attributes : Attributes]

\* 'class' in attrs
HasAttr(attrs, k) == \E i \in 1..Len(attrs) : attrs[i].key = k
\* attrs[k]
AttrOf(attrs, k) == attrs[CHOOSE i \in 1..Len(attrs) : attrs[i].key = k].value

\* keys.forEach((key) => (idString += '[' + key + '=' + attrs[key] + ']'))
RECURSIVE AppendBrackets(_, _)
AppendBrackets(str, attrs) ==
    IF attrs = << >> THEN str
    ELSE AppendBrackets(
            str \o << "[", Head(attrs).key, "=" >> \o Head(attrs).value
                \o << "]" >>,
            Tail(attrs))

IsClassOrId(a) == a.key \in {"class", "id"}

IdStringAllKeys(node) ==
    LET attrs == node.attributes
        s0 == node.tagName
        s1 == IF HasAttr(attrs, "class") /\ AttrOf(attrs, "class") # << >>
              THEN s0 \o << "." >> \o AttrOf(attrs, "class")
              ELSE s0
        s2 == IF HasAttr(attrs, "id") /\ AttrOf(attrs, "id") # << >>
              THEN s1 \o << "#" >> \o AttrOf(attrs, "id")
              ELSE s1
    IN  AppendBrackets(s2, attrs)

\* var idString = node?.tagName; if (node?.attributes) { ... }
IdString(node) ==
    LET attrs == node.attributes
        s0 == node.tagName
        s1 == IF HasAttr(attrs, "class") /\ AttrOf(attrs, "class") # << >>
              THEN s0 \o << "." >> \o AttrOf(attrs, "class")
              ELSE s0
        s2 == IF HasAttr(attrs, "id") /\ AttrOf(attrs, "id") # << >>
              THEN s1 \o << "#" >> \o AttrOf(attrs, "id")
              ELSE s1
    IN  AppendBrackets(s2, SelectSeq(attrs, LAMBDA a : ~IsClassOrId(a)))

InitDescribe ==
    /\ PlayerInit
    /\ BackendIdle
    /\ FeedIdle
    /\ probe \in Nodes
    /\ verdict = {}

\* the description of one feed item is computed
Describe ==
    /\ verdict = {}
    /\ verdict' = {IdString(probe)}
    /\ UNCHANGED << probe, playerVars, healthVars, serverVars, storeVars, feedVars >>

NextDescribe == Describe

SpecDescribe == InitDescribe /\ [][NextDescribe]_vars

(* ------------------------ the Sessions query -------------------------- *)
\* a *bool column or argument
OptBools == {"true", "false", "nil"}

\* the rows TestHideViewedSessions inserts: organization 1, active length
\* 1000, Viewed true, false or nil
SessionsToInsert ==
    UNION {[1..n -> [ActiveLength : {1000}, OrganizationID : {1},
                     Viewed : OptBools]] : n \in 0..MaxSessions}

\* DB.Create(&sessions): a row is stored with FirstTime false when the
\* field is not given
Created(rows) ==
    [i \in 1..Len(rows) |->
        [ActiveLength |-> rows[i].ActiveLength,
         OrganizationID |-> rows[i].OrganizationID,
         Viewed |-> rows[i].Viewed,
         FirstTime |-> "false"]]

SessionsUnviewedOnly(table, organizationID, hideViewed) ==
    LET shown(row) ==
            /\ row.OrganizationID = organizationID
            /\ hideViewed => row.Viewed = "false"
        rows == SelectSeq(table, shown)
    IN  [Sessions |-> rows, TotalCount |-> Len(rows)]

\* r.Sessions(ctx, organizationID, count, SessionLifecycleAll, false,
\* &SearchParamsInput{HideViewed: hideViewed}), for a count that covers the
\* table
Sessions(table, organizationID, hideViewed) ==
    LET shown(row) ==
            /\ row.OrganizationID = organizationID
            /\ hideViewed => row.Viewed # "true"
        rows == SelectSeq(table, shown)
    IN  [Sessions |-> rows, TotalCount |-> Len(rows)]

InitSessions ==
    /\ PlayerInit
    /\ BackendIdle
    /\ FeedIdle
    /\ probe \in [sessionsToInsert : SessionsToInsert, hideViewed : BOOLEAN]
    /\ verdict = {}

\* one sub-test: the rows are inserted and the query runs
QuerySessions ==
    /\ verdict = {}
    /\ verdict' = {Sessions(Created(probe.sessionsToInsert), 1,
                            probe.hideViewed)}
    /\ UNCHANGED << probe, playerVars, healthVars, serverVars, storeVars, feedVars >>

NextSessions == QuerySessions

SpecSessions == InitSessions /\ [][NextSessions]_vars

(* --------------------------- GET /health ------------------------------ *)
Runtimes == {"all", "worker", "public-graph", "private-graph"}

\* what the handler answers when the two Submit calls return ok1 and ok2
\* (the batched Submit is reached only if the first one succeeded)
HealthResponseUnbatchedOnly(ok1, ok2) ==
    IF ~ok1
    THEN [status |-> 500,
          body |-> [kind |-> "failed to write message to kafka",
                    detail |-> "topic"]]
    ELSE [status |-> 200,
          body |-> [kind |-> "is healthy", detail |-> hRuntime]]

HealthResponse(ok1, ok2) ==
    IF ~ok1
    THEN [status |-> 500,
          body |-> [kind |-> "failed to write message to kafka",
                    detail |-> "topic"]]
    ELSE IF ~ok2
         THEN [status |-> 500,
               body |-> [kind |-> "failed to write message to kafka",
                         detail |-> "batchedTopic"]]
         ELSE [status |-> 200,
               body |-> [kind |-> "is healthy", detail |-> hRuntime]]

\* the handler returned by healthRouter; ok1 and ok2 are the broker's
\* answers to queue.Submit and batchedQueue.Submit
HealthRequest(ok1, ok2) ==
    /\ hRequests < MaxRequests
    /\ hRequests' = hRequests + 1
    /\ hQueue' = IF ok1 THEN hQueue + 1 ELSE hQueue
    /\ hBatched' = IF ok1 /\ ok2 THEN hBatched + 1 ELSE hBatched
    /\ hSubmits' = IF ok1 THEN << ok1, ok2 >> ELSE << ok1 >>
    /\ hStatus' = HealthResponse(ok1, ok2).status
    /\ hBody' = HealthResponse(ok1, ok2).body
    /\ UNCHANGED << hRuntime, playerVars, probeVars, serverVars, storeVars, feedVars >>

InitHealth ==
    /\ PlayerInit
    /\ ProbeIdle
    /\ hRuntime \in Runtimes
    /\ HealthQuiet
    /\ ServerIdle
    /\ StoreIdle
    /\ FeedIdle

NextHealth == \E ok1 \in BOOLEAN, ok2 \in BOOLEAN : HealthRequest(ok1, ok2)

SpecHealth == InitHealth /\ [][NextHealth]_vars


(* ----------------- the process and its origin checks ------------------ *)
\* A string is modelled as the sequence of its pieces, '' being << >>.
HasPrefix(str, prefix) ==
    /\ Len(prefix) <= Len(str)
    /\ SubSeq(str, 1, Len(prefix)) = prefix
HasSuffix(str, suffix) ==
    /\ Len(suffix) <= Len(str)
    /\ SubSeq(str, Len(str) - Len(suffix) + 1, Len(str)) = suffix

\* values of the Origin header
Origins ==
    {<< >>,
     << "https://app.highlight.run" >>,
     << "https://app.highlight.io" >>,
     << "https://frontend.example" >>,
     << "https://landing-staging.example" >>,
     << "https://frontend-pr-", "12", ".onrender.com" >>,
     << "https://pr-", "12", ".d25bj3loqvp3nx.amplifyapp.com" >>,
     << "https://frontend-pr-", "12", ".other.example" >>,
     << "https://other", ".onrender.com" >>,
     << "https://pr-", "12", ".onrender.com" >>,
     << "https://other.example" >>}
\* values of FRONTEND_URI and LANDING_PAGE_STAGING_URI
FrontendURLs == {<< >>, << "https://frontend.example" >>}
LandingStagingURLs == {<< >>, << "https://landing-staging.example" >>}
\* values of the worker-handler flag and of the environment
HandlerFlags == {"", "handler"}
Envs == {"dev", "test", "prod"}

validateOriginPrefixOnly(origin) ==
    IF hRuntime = "private-graph"
    THEN LET isRenderPreviewEnv ==
                 HasPrefix(origin, << "https://frontend-pr-" >>)
             isAWSEnv ==
                 HasPrefix(origin, << "https://pr-" >>)
         IN  \/ origin = hFrontendURL
             \/ origin = << "https://app.highlight.run" >>
             \/ origin = << "https://app.highlight.io" >>
             \/ origin = hLandingStagingURL
             \/ isRenderPreviewEnv
             \/ isAWSEnv
    ELSE IF hRuntime = "public-graph" \/ hRuntime = "all"
         THEN TRUE
         ELSE FALSE

\* func validateOrigin(_ *http.Request, origin string) bool
validateOrigin(origin) ==
    IF hRuntime = "private-graph"
    THEN LET isRenderPreviewEnv ==
                 /\ HasPrefix(origin, << "https://frontend-pr-" >>)
                 /\ HasSuffix(origin, << ".onrender.com" >>)
             isAWSEnv ==
                 /\ HasPrefix(origin, << "https://pr-" >>)
                 /\ HasSuffix(origin, << ".d25bj3loqvp3nx.amplifyapp.com" >>)
         IN  \/ origin = hFrontendURL
             \/ origin = << "https://app.highlight.run" >>
             \/ origin = << "https://app.highlight.io" >>
             \/ origin = hLandingStagingURL
             \/ isRenderPreviewEnv
             \/ isAWSEnv
    ELSE IF hRuntime = "public-graph" \/ hRuntime = "all"
         THEN TRUE
         ELSE FALSE

\* CheckOrigin of the websocket Upgrader of the private graph
CheckOrigin(req) ==
    IF ~req.hasOrigin THEN FALSE ELSE validateOrigin(req.origin)

\* a request with an Origin header passing the cors middleware of the
\* router, or a websocket upgrade on the private graph with or without one
NoRequest == [kind |-> "none", hasOrigin |-> FALSE, origin |-> << >>]
Requests ==
    [kind : {"cors", "websocket"}, hasOrigin : {TRUE}, origin : Origins]
        \cup {[kind |-> "websocket", hasOrigin |-> FALSE, origin |-> << >>]}

HttpServers == {"ListenAndServe", "ListenAndServeTLS"}

\* the end of main: what is started for a runtime, a worker-handler flag
\* and an environment
Started(runtime, handler, env) ==
    LET server == IF env = "dev" THEN {"ListenAndServeTLS"}
                  ELSE {"ListenAndServe"}
    IN  IF runtime = "worker" \/ runtime = "all"
        THEN IF runtime = "worker"
             THEN (IF env \notin {"dev", "test"} THEN {"profiler"} ELSE {})
                    \cup (IF handler # ""
                          THEN {"worker.GetHandler"}
                          ELSE {"worker.Start"} \cup server)
             ELSE {"worker.Start", "worker.PublicWorker"} \cup server
        ELSE server

InitServer ==
    /\ PlayerInit
    /\ probe = NoRequest
    /\ verdict = {}
    /\ HealthQuiet
    /\ StoreIdle
    /\ FeedIdle
    /\ hRuntime \in Runtimes
    /\ hHandlerFlag \in HandlerFlags
    /\ hEnv \in Envs
    /\ hFrontendURL \in FrontendURLs
    /\ hLandingStagingURL \in LandingStagingURLs
    /\ hRunning = {}

\* main reaches "Decide what binary to run"
Main ==
    /\ hRunning = {}
    /\ hRunning' = Started(hRuntime, hHandlerFlag, hEnv)
    /\ UNCHANGED << hHandlerFlag, hEnv, hFrontendURL, hLandingStagingURL,
                    playerVars, probeVars, healthVars, storeVars, feedVars >>

\* the HTTP server checks the origin of a request: the cors middleware on
\* every route, the Upgrader where the private graph is served
OriginCheck(req) ==
    /\ hRunning \cap HttpServers # {}
    /\ req.kind = "websocket" => hRuntime \in {"private-graph", "all"}
    /\ probe' = req
    /\ verdict' = {IF req.kind = "websocket" THEN CheckOrigin(req)
                   ELSE validateOrigin(req.origin)}
    /\ UNCHANGED << playerVars, healthVars, serverVars, storeVars, feedVars >>

OriginCheckStep == \E req \in Requests : OriginCheck(req)

NextServer ==
    \/ Main
    \/ OriginCheckStep

SpecServer == InitServer /\ [][NextServer]_vars

(* --------------------------- Timeline Store --------------------------- *)
\* An envelope of the session is named by its sequenceIndex.
Envelopes == 1..MaxEnvelopes

\* the ways writers cut the session's envelopes into batches
Batchings ==
    {{b \in {{i \in Envelopes : f[i] = k} : k \in Envelopes} : b # {}} :
        f \in [Envelopes -> Envelopes]}

\* one envelope is put at the end of the stored sequence unless its
\* sequenceIndex is stored already
InsertAtEnd(seq, x) ==
    IF \E i \in 1..Len(seq) : seq[i] = x THEN seq ELSE Append(seq, x)

\* one envelope is put at its place by sequenceIndex, unless its
\* sequenceIndex is stored already
Insert(seq, x) ==
    IF \E i \in 1..Len(seq) : seq[i] = x THEN seq
    ELSE LET before == SelectSeq(seq, LAMBDA y : y < x)
             after == SelectSeq(seq, LAMBDA y : y > x)
         IN  before \o << x >> \o after

\* append(sessionId, envelopes): the batch is merged into the stored
\* sequence
RECURSIVE Merge(_, _)
Merge(seq, batch) ==
    IF batch = {} THEN seq
    ELSE LET x == CHOOSE y \in batch : TRUE
         IN  Merge(Insert(seq, x), batch \ {x})

\* readAll(sessionId): the stored envelopes up to the first gap
Visible(seq) ==
    SubSeq(seq, 1,
           Cardinality({n \in 1..Len(seq) : \A i \in 1..n : seq[i] = i}))

InitStore ==
    /\ PlayerInit
    /\ ProbeIdle
    /\ HealthIdle
    /\ ServerIdle
    /\ FeedIdle
    /\ tsBatches \in Batchings
    /\ tsPending = tsBatches
    /\ tsStore = << >>
    /\ tsRedelivered = 0

\* a batch reaches the store, in any order, and is acknowledged
AppendBatch(b) ==
    /\ b \in tsPending
    /\ tsStore' = Merge(tsStore, b)
    /\ tsPending' = tsPending \ {b}
    /\ UNCHANGED << tsBatches, tsRedelivered, playerVars, probeVars,
                    healthVars, serverVars, feedVars >>

\* at-least-once delivery: a batch already acknowledged arrives again
Redeliver(b) ==
    /\ b \in tsBatches \ tsPending
    /\ tsRedelivered < MaxRedeliveries
    /\ tsRedelivered' = tsRedelivered + 1
    /\ tsStore' = Merge(tsStore, b)
    /\ UNCHANGED << tsBatches, tsPending, playerVars, probeVars,
                    healthVars, serverVars, feedVars >>

AppendStep == \E b \in SUBSET Envelopes : AppendBatch(b)

RedeliverStep == \E b \in SUBSET Envelopes : Redeliver(b)

NextStore ==
    \/ AppendStep
    \/ RedeliverStep

SpecStore == InitStore /\ [][NextStore]_vars

(* ----------------------------- error feed ----------------------------- *)
\* ErrorFeedV2.  The search context that provides searchParams and
\* searchQuery lives outside the component: the model lets either of them
\* change.  "" stands for the absence of a search query, which skips the
\* query.
SearchParamsValues == {"p1", "p2"}

SearchQueries == {"", "q1", "q2"}

\* totalCount values the server answers with
Totals == {0, MaxErrorGroups}

Min(a, b) == IF a < b THEN a ELSE b

\* the dependencies of the effect that shows the skeleton, out of the
\* values of a render
SkeletonDepsWithCount(params, cnt) == << params, cnt >>

SkeletonDeps(params, cnt) == << params >>

\* useEffect(() => setShowLoadingSkeleton(true), deps) as it runs after a
\* render: the effect runs only when a dependency changed
SearchParamsEffect(before, after, shown) ==
    IF before # after THEN TRUE ELSE shown

\* loading of useQuery after a render with the given query string: a
\* skipped query is not loading, a change of variables starts a request
LoadingAfter(before, after, wasLoading) ==
    IF after = "" THEN FALSE
    ELSE IF before # after THEN TRUE
    ELSE wasLoading

InitFeed ==
    /\ PlayerInit
    /\ ProbeIdle
    /\ BackendIdle
    /\ searchParams \in SearchParamsValues
    /\ searchQuery \in SearchQueries
    /\ count = 10
    /\ data = [error_groups |-> 0, totalCount |-> 0]
    /\ loading = (searchQuery # "")
    /\ showLoadingSkeleton = TRUE

\* the search context hands the component new values and it renders again
SearchChange(p, q) ==
    /\ << p, q >> # << searchParams, searchQuery >>
    /\ searchParams' = p
    /\ searchQuery' = q
    /\ loading' = LoadingAfter(searchQuery, q, loading)
    /\ showLoadingSkeleton' =
           SearchParamsEffect(SkeletonDeps(searchParams, count),
                              SkeletonDeps(p, count), showLoadingSkeleton)
    /\ UNCHANGED << count, data >>
    /\ UNCHANGED << playerVars, probeVars, healthVars, serverVars, storeVars >>

\* the request in flight is answered: onCompleted hides the skeleton and the
\* effect on the result stores it
QueryCompleted(total) ==
    /\ loading
    /\ loading' = FALSE
    /\ data' = [error_groups |-> Min(count + PageSize, total),
                totalCount |-> total]
    /\ showLoadingSkeleton' =
           SearchParamsEffect(SkeletonDeps(searchParams, count),
                              SkeletonDeps(searchParams, count), FALSE)
    /\ UNCHANGED << searchParams, searchQuery, count >>
    /\ UNCHANGED << playerVars, probeVars, healthVars, serverVars, storeVars >>

\* useInfiniteScroll calls onLoadMore when the query is not loading and
\* there is a next page; the new count changes the variables of the query
LoadMore ==
    /\ ~loading
    /\ data.error_groups < data.totalCount
    /\ count < MaxCount
    /\ count' = count + PageSize
    /\ loading' = (searchQuery # "")
    /\ showLoadingSkeleton' =
           SearchParamsEffect(SkeletonDeps(searchParams, count),
                              SkeletonDeps(searchParams, count + PageSize),
                              showLoadingSkeleton)
    /\ UNCHANGED << searchParams, searchQuery, data >>
    /\ UNCHANGED << playerVars, probeVars, healthVars, serverVars, storeVars >>

SearchChangeStep ==
    \E p \in SearchParamsValues : \E q \in SearchQueries : SearchChange(p, q)

QueryCompletedStep == \E total \in Totals : QueryCompleted(total)

NextFeed ==
    \/ SearchChangeStep
    \/ QueryCompletedStep
    \/ LoadMore

SpecFeed == InitFeed /\ [][NextFeed]_vars

\* every request is answered
SpecFeedFair == SpecFeed /\ WF_vars(QueryCompletedStep)

(* ============================== claims ================================ *)
Seeks == {"Rewind", "SliderSelect"}

\* offsets from the session start at which the loaded session has a useful
\* event
UsefulTimes ==
    {events[i].timestamp - events[1].timestamp :
        i \in {j \in 1..Len(events) : usefulEvent(events[j])}}

\* C1: usefulEvent returns true exactly for an IncrementalSnapshot event
\* whose source is MouseInteraction and whose kind is Click or Focus, and
\* false for every other event.
C1_UsefulIffClickOrFocus ==
    verdict # {} =>
        verdict = {/\ probe.type = "IncrementalSnapshot"
                   /\ probe.source = "MouseInteraction"
                   /\ probe.kind \in {"Click", "Focus"}}

C1_FocusClassified ==
    /\ verdict = {TRUE}
    /\ probe.kind = "Focus"

\* C2: /health answers healthy only if both Submit calls of the request
\* succeeded; if one fails the answer is a 500 naming the failing topic and
\* no healthy body is written.
C2_HealthyOnlyAfterBothSubmits ==
    /\ hSubmits = << FALSE >> =>
          /\ hStatus = 500
          /\ hBody = [kind |-> "failed to write message to kafka",
                      detail |-> "topic"]
    /\ hSubmits = << TRUE, FALSE >> =>
          /\ hStatus = 500
          /\ hBody = [kind |-> "failed to write message to kafka",
                      detail |-> "batchedTopic"]
    /\ hBody.kind = "is healthy" =>
          /\ hSubmits = << TRUE, TRUE >>
          /\ hQueue > 0
          /\ hBatched > 0

C2_BatchedSubmitFailed ==
    /\ hSubmits = << TRUE, FALSE >>
    /\ hStatus = 500
    /\ hQueue > hBatched

\* C3: while playing, every tick advances the time by the tick interval
\* multiplied by the playback speed.
C3_TickAdvancesBySpeed ==
    [][(lastAct' = "Tick" /\ time' # time) =>
            time' = time + TickInterval * speed]_vars

\* C4: a playing player is paused by its ticker only once the time has
\* reached the total duration of the session.
C4_AutoPauseOnlyAtEnd ==
    (mounted /\ lastAct = "Tick" /\ paused) => time >= totalTime

\* C5: after a seek (slider selection or rewind) the time lies within
\* [0, totalTime].
C5_SeekClamped ==
    lastAct \in Seeks => (0 <= time /\ time <= totalTime)

\* C6: a seek issued while the player is paused (respectively playing), in
\* the UI flag and in the replayer, keeps the flag and leaves the replayer
\* paused (respectively playing) at the new time.
C6_SeekPreservesPlayState ==
    [][(/\ lastAct' \in Seeks
        /\ inputs' = inputs + 1
        /\ replayer.present
        /\ replayer.playing = ~paused) =>
            /\ paused' = paused
            /\ replayer'.playing = ~paused
            /\ replayer'.offset = time']_vars

\* C7: when the first session data arrives and the replayer is created, the
\* player is paused at time 0.
C7_LoadedPausedAtZero ==
    (lastAct = "SessionData" /\ fetches = 1 /\ replayer.present) =>
        (paused /\ time = 0)

\* C8 (as stated): a seek issued while the player is ticking cancels the
\* ticker interval that was live before the seek.
C8_SeekCancelsTicker ==
    [][(lastAct' \in Seeks /\ inputs' = inputs + 1 /\ ~paused) =>
            tickers' \cap tickers = {}]_vars

\* C8 (amended): a seek leaves the live ticker interval untouched, and the
\* first tick after the seek starts from the time the seek set: it adds one
\* tick interval to it, or leaves it and pauses the player.
C8_TickContinuesFromSeek ==
    [][/\ (lastAct' \in Seeks /\ inputs' = inputs + 1) =>
              (tickers' = tickers /\ ticker' = ticker)
       /\ (lastAct \in Seeks /\ lastAct' = "Tick" /\ mounted) =>
              \/ time' = time + TickInterval /\ ~paused'
              \/ time' = time /\ paused']_vars

C8_SeekWhileTicking ==
    /\ lastAct = "SliderSelect"
    /\ ~paused
    /\ time = 500
    /\ replayer.present
    /\ replayer.playing
    /\ replayer.offset = 0
    /\ ticker # 0
    /\ \E i \in tickers : i.id = ticker

\* C9: once the view is closed no interval it created fires again.
C9_NoTimerFiresAfterClose ==
    lastAct \in {"Tick", "ResizeTick"} => mounted

\* C10: with skip-inactivity enabled, a seek or a tick that moves the time
\* of a loaded session moves it to a useful event's timestamp or to the end
\* of the session.
C10_NeverRestsInInactiveSpan ==
    [][(/\ skipInactive
        /\ replayer.present
        /\ replayer.skipInactive
        /\ lastAct' \in Seeks \cup {"Tick"}
        /\ time' # time) =>
            time' \in UsefulTimes \cup {totalTime}]_vars

\* C11: the activity feed lists exactly the events of the loaded session
\* for which usefulEvent is true, each once and in their original order;
\* for the session FullSnapshot, Click at 500, Scroll at 600 it has exactly
\* one item, at 500.
C11_FeedIsUsefulSubsequence ==
    FeedShown =>
        /\ {Feed[i].identifier : i \in 1..Len(Feed)} =
              {events[j].identifier :
                  j \in {k \in 1..Len(events) : usefulEvent(events[k])}}
        /\ \A i, j \in 1..Len(Feed) :
              i < j => Feed[i].identifier < Feed[j].identifier
        /\ \A i \in 1..Len(Feed) :
              Feed[i].timeSinceStart =
                  events[Feed[i].identifier + 1].timestamp
                      - events[1].timestamp
        /\ events = WithIdentifiers(SessionS1) =>
              Feed = << [identifier |-> 1, eventStr |-> "Click",
                         timeSinceStart |-> 500] >>

C11_FeedOfS1 ==
    /\ FeedShown
    /\ events = WithIdentifiers(SessionS1)
    /\ Len(Feed) = 1
    /\ Feed[1].timeSinceStart = 500

CrossedUseful(from, to) ==
    {i \in 1..Len(events) :
        /\ usefulEvent(events[i])
        /\ from < events[i].timestamp - events[1].timestamp
        /\ events[i].timestamp - events[1].timestamp <= to}

\* the replayer has no 'event-cast' of a useful event left to emit
NoCastPending(r) == ~r.playing \/ PendingUseful(r) = {}

\* C13: when the time moves forward across the timestamp of a useful event,
\* by a tick or by a seek of a player whose flag and replayer agree, the
\* feed is synchronized: once the replayer has nothing left to emit, the
\* last event crossed is the current item and the feed has scrolled to it.
C13_FeedFollowsCursor ==
    [][(/\ lastAct' \in Seeks \cup {"Tick"}
        /\ mounted
        /\ FeedShown
        /\ replayer.playing = ~paused
        /\ NoCastPending(replayer')
        /\ CrossedUseful(time, time') # {}) =>
            LET last == {i \in CrossedUseful(time, time') :
                            \A k \in CrossedUseful(time, time') :
                                events[k].timestamp <= events[i].timestamp}
            IN  /\ currEvent' \in {events[i].timestamp : i \in last}
                /\ scrollTarget' \in {events[i].identifier : i \in last}]_vars

\* C14: a seek to t puts the replay at t whatever the position it starts
\* from -- the replayer is positioned at the time the seek set -- and a
\* second seek to the same t changes neither the replayer nor the time.
C14_SeekIdempotent ==
    [][(/\ lastAct' \in Seeks
        /\ inputs' = inputs + 1
        /\ replayer.present
        /\ replayer.playing = ~paused) =>
            /\ replayer'.offset = time'
            /\ (lastAct \in Seeks /\ time' = time /\ replayer.offset = time)
                  => replayer' = replayer]_vars

\* C15: the Sessions query with HideViewed = true returns exactly the
\* sessions whose Viewed is not true (false or unset), and with HideViewed =
\* false all of them; TotalCount is their number, and the sessions returned
\* are the inserted ones, field for field, with FirstTime false.
C15_HideViewed ==
    \A res \in verdict :
        LET rows == probe.sessionsToInsert
            kept == {i \in 1..Len(rows) :
                        ~probe.hideViewed \/ rows[i].Viewed \in {"false", "nil"}}
            \* the k-th kept row
            nth(k) == CHOOSE i \in kept :
                          Cardinality({j \in kept : j <= i}) = k
        IN  /\ res.TotalCount = Cardinality(kept)
            /\ Len(res.Sessions) = Cardinality(kept)
            /\ \A k \in 1..Len(res.Sessions) :
                  /\ res.Sessions[k].Viewed = rows[nth(k)].Viewed
                  /\ res.Sessions[k].ActiveLength = rows[nth(k)].ActiveLength
                  /\ res.Sessions[k].OrganizationID =
                        rows[nth(k)].OrganizationID
                  /\ res.Sessions[k].FirstTime = "false"

C15_ViewedHidden ==
    /\ probe.hideViewed
    /\ Len(probe.sessionsToInsert) = 3
    /\ probe.sessionsToInsert[1].Viewed = "true"
    /\ probe.sessionsToInsert[2].Viewed = "false"
    /\ probe.sessionsToInsert[3].Viewed = "nil"
    /\ \E res \in verdict :
          /\ res.TotalCount = 2
          /\ res.Sessions[2].Viewed = "nil"

\* C16: when an event is appended to the session of an open view, the
\* replayer in use sees the longer list and the total time grows, while the
\* paused flag, the time and the replayer's position and play state stay as
\* they were and no other replayer is built.
C16_AppendKeepsPlayback ==
    [][(/\ lastAct' = "SessionData"
        /\ fetches' = fetches + 1
        /\ replayer.present
        /\ sessionData # << >>
        /\ Len(sessionData) < Len(sessionData')
        /\ SubSeq(sessionData', 1, Len(sessionData)) = sessionData) =>
            /\ totalTime' > totalTime
            /\ replayer'.events = WithIdentifiers(sessionData')
            /\ paused' = paused
            /\ time' = time
            /\ replayer'.id = replayer.id
            /\ replayer'.playing = replayer.playing
            /\ replayer'.offset = replayer.offset]_vars

\* C17: whatever the order in which the batches of a session reach the
\* Timeline Store, once every write is acknowledged the sequence readers
\* see holds every written event once, in the order of sequenceIndex.
C17_ConvergesUnderReordering ==
    (tsBatches # {} /\ tsPending = {}) =>
        /\ Len(Visible(tsStore)) = MaxEnvelopes
        /\ \A i \in 1..MaxEnvelopes : Visible(tsStore)[i] = i

C17_RedeliveredAndAcknowledged ==
    /\ tsBatches = {{1, 2}, {3}, {4}}
    /\ tsPending = {}
    /\ tsRedelivered = 1
    /\ Visible(tsStore) = << 1, 2, 3, 4 >>

\* C18: the speed is always one of 1, 2, 4; a click on the speed control
\* takes it from 2 to 4, from 4 to 1 and from 1 to 2; and after a click the
\* replayer of the view is configured with the speed shown.
C18_SpeedCycles ==
    /\ [](speed \in {1, 2, 4})
    /\ [][(lastAct' = "Speed" /\ inputs' = inputs + 1) =>
              /\ speed = 2 => speed' = 4
              /\ speed = 4 => speed' = 1
              /\ speed = 1 => speed' = 2
              /\ replayer'.present => replayer'.speed = speed']_vars
    /\ [][(lastAct = "Speed" /\ replayer'.present) =>
              replayer'.speed = speed']_vars

\* the origins the private graph names
Whitelisted(origin) ==
    \/ origin \in {hFrontendURL, << "https://app.highlight.run" >>,
                   << "https://app.highlight.io" >>, hLandingStagingURL}
    \/ /\ Len(origin) >= 2
       /\ \/ /\ origin[1] = "https://frontend-pr-"
             /\ origin[Len(origin)] = ".onrender.com"
          \/ /\ origin[1] = "https://pr-"
             /\ origin[Len(origin)] = ".d25bj3loqvp3nx.amplifyapp.com"

\* C19 (as stated): where the private graph is served (runtime
\* private-graph or all) a CORS request or websocket upgrade is allowed only
\* if its Origin is whitelisted, and a websocket upgrade without an Origin
\* header is rejected.
C19_PrivateGraphWhitelist ==
    \A allowed \in verdict :
        /\ (hRuntime \in {"private-graph", "all"} /\ allowed) =>
              (probe.hasOrigin /\ Whitelisted(probe.origin))
        /\ (probe.kind = "websocket" /\ ~probe.hasOrigin) => ~allowed

\* C19 (amended): with runtime private-graph a request is allowed exactly
\* if it has a whitelisted Origin; with runtime all or public-graph every
\* request with an Origin is allowed, whitelisted or not; with runtime
\* worker none is; a websocket upgrade without an Origin header is always
\* rejected.
C19_WhitelistOnPrivateGraphRuntime ==
    \A allowed \in verdict :
        /\ hRuntime = "private-graph" =>
              (allowed <=> (probe.hasOrigin /\ Whitelisted(probe.origin)))
        /\ hRuntime \in {"all", "public-graph"} =>
              (allowed <=> probe.hasOrigin)
        /\ hRuntime = "worker" => ~allowed
        /\ (probe.kind = "websocket" /\ ~probe.hasOrigin) => ~allowed

C19_AnyOriginOnRuntimeAll ==
    /\ hRuntime = "all"
    /\ probe.kind = "websocket"
    /\ probe.origin = << "https://other.example" >>
    /\ verdict = {TRUE}

\* C20: the runtime decides what the process runs: for worker only the
\* worker and no HTTP server, for all both the HTTP server and the worker,
\* for any other runtime only the HTTP server.
C20_RuntimeDecidesWhatRuns ==
    hRunning # {} =>
        LET server == hRunning \cap HttpServers # {}
            worker == hRunning \cap {"worker.Start", "worker.PublicWorker",
                                     "worker.GetHandler"} # {}
        IN  /\ hRuntime = "worker" => (worker /\ ~server)
            /\ hRuntime = "all" => (worker /\ server)
            /\ hRuntime \notin {"worker", "all"} => (server /\ ~worker)

\* C21: the loading skeleton of the error feed comes up only when
\* searchParams changes (it is up from the first render), and loading more
\* error groups through infinite scroll never changes whether it is shown.
C21_SkeletonOnlyOnSearchParams ==
    [][/\ (showLoadingSkeleton' /\ ~showLoadingSkeleton)
              => searchParams' # searchParams
       /\ count' # count => showLoadingSkeleton' = showLoadingSkeleton]_vars

C21_LoadingMoreWithoutSkeleton ==
    /\ loading
    /\ count > 10
    /\ ~showLoadingSkeleton

\* C22: in every execution in which the query of the error feed comes to
\* rest (from some point on it is not loading), a loading skeleton that is
\* shown is eventually hidden.
C22_SkeletonEventuallyHidden ==
    <>[](~loading) => (showLoadingSkeleton ~> ~showLoadingSkeleton)

\* C23: at most one ticker interval is live, and a ticker is live only
\* while the player is not paused.
C23_OneTickerWhilePlaying ==
    /\ Cardinality(tickers) <= 1
    /\ tickers # {} => ~paused

C23_TickerLive ==
    /\ mounted
    /\ ~paused
    /\ Cardinality(tickers) = 1

\* C24: every change of the paused flag of the UI is matched by the
\* corresponding call on the replayer: after a step that changes paused, a
\* replayer that is present was last told to pause exactly when paused is
\* true.
C24_PausedFlagMatchesReplayer ==
    [][(paused' # paused /\ replayer'.present)
           => (replayer'.playing = ~paused')]_vars

\* C25: after a click on 'Skip Inactivity' the skipInactive setting of the
\* replayer equals the skipInactive flag of the UI.
C25_SkipInactiveMatchesReplayer ==
    [][(lastAct' = "SkipInactivity" /\ replayer'.present)
           => (replayer'.skipInactive = skipInactive')]_vars

\* C26: in every reachable state of the player the displayed time satisfies
\* 0 <= time <= totalTime.
C26_TimeWithinSession ==
    /\ 0 <= time
    /\ time <= totalTime

\* the timestamps of the loaded session never decrease along its events
NonDecreasing(evs) ==
    \A i \in 1..Len(evs) : \A j \in i..Len(evs) :
        evs[i].timestamp <= evs[j].timestamp

\* C27: for a session whose timestamps are non-decreasing, at most one item
\* of the activity feed is highlighted as the current event.
C27_OneItemHighlighted ==
    NonDecreasing(events) => Cardinality(Highlighted) <= 1

====
